---- MODULE Spec2Model ----
(***************************************************************************)
(* Model of src/tothom.ts: the Tothom preview manager.                     *)
(*                                                                         *)
(* State: the session map _views, the webview panels the host created,     *)
(* the slug registry _slugCount, the configuration snapshot _config, the   *)
(* heading_open rule installed on the shared markdown engine and the       *)
(* terminals of the host.  One action per command or host callback; every  *)
(* handler runs to completion (single extension thread).  The file a       *)
(* handler reads is an input of the handler: whatever is on disk then.     *)
(* `last` is the effect log of the handler that ran last.  `img` is one     *)
(* call of sanitizeHtmlLocalPaths, its arguments and its result; the        *)
(* documents of Spec hold no image, SpecImg applies it to html with images. *)
(***************************************************************************)
EXTENDS Integers, Sequences, FiniteSets, TLC

VARIABLES views, panels, slugCount, config, heading_open, terminals, last, img

vars == <<views, panels, slugCount, config, heading_open, terminals, last, img>>

(***************************************************************************)
(* Bounds of the model.                                                    *)
(***************************************************************************)
\* webview panels the host creates in one run
MaxPanels == 2
\* image tags of one rendered html
MaxImages == 2

(***************************************************************************)
(* Values.                                                                 *)
(***************************************************************************)
\* vscode.Uri objects handed to the commands.  Two distinct objects (obj 1
\* and obj 2) name the same file; a JavaScript Map compares object keys by
\* reference, so a key is the whole record, obj included.
Uris ==
  { [obj |-> 1, path |-> "/a.md"],
    [obj |-> 2, path |-> "/a.md"],
    [obj |-> 3, path |-> "/b.md"] }

Paths == { u.path : u \in Uris }

\* the Document Identity a locator denotes
DocOf(uri) == uri.path

\* a markdown document is represented by the raw texts of its headings, each
\* a sequence of characters: "# In" followed by "## In", and "# In 1"
Contents ==
  { << <<"I", "n">>, <<"I", "n">> >>,
    << <<"I", "n", " ", "1">> >> }

\* a file on disk when it is read: readable with a content, or missing
Unreadable == [readable |-> FALSE, content |-> << >>]

FileStates == {Unreadable} \cup [readable : {TRUE}, content : Contents]

\* the configuration section the host holds
Configs == [bracketedPasteMode : BOOLEAN]

EmptyMap == << >>

\* the html of a webview nothing was assigned to
EmptyHtml == [uri |-> "", headings |-> << >>]

\* no locator
NoUri == [obj |-> 0, path |-> ""]

\* this._extensionUri
ExtensionUri == "extension"

\* vscode.workspace.workspaceFolders when a panel is created: no folder, or
\* two folders of which /ws1 is the first
WorkspaceFolders == { << >>, <<"/ws1", "/ws2">> }

\* a panel after its disposal: the object is gone
DisposedPanel ==
  [live |-> FALSE, key |-> NoUri, html |-> EmptyHtml,
   localResourceRoots |-> {}, subscriptions |-> 0]

(***************************************************************************)
(* Map<K, V> of JavaScript, as a function on the set of its keys.          *)
(***************************************************************************)
MapHas(m, k) == k \in DOMAIN m

MapSet(m, k, v) == [x \in (DOMAIN m) \cup {k} |-> IF x = k THEN v ELSE m[x]]

MapDelete(m, k) == [x \in (DOMAIN m) \ {k} |-> m[x]]

\* JavaScript truthiness of m.get(k) for a Map<string, number>: undefined and
\* 0 are both falsy
Truthy(m, k) == MapHas(m, k) /\ m[k] # 0

(***************************************************************************)
(* utils.ts, slugify.ts, terminal.ts: not part of src/, modelled from the  *)
(* specification.                                                          *)
(***************************************************************************)
\* the resource of a locator: the locator object itself
resourceFromUri(uri) == uri

\* readFileContent fails with a ReadError on a missing file
readFails(file) == ~file.readable

readFileContent(file) == file.content

SlugChar(c) ==
  CASE c = "I" -> "i"
    [] c = " " -> "-"
    [] OTHER -> c

\* lowercase, whitespace to separators
slugify(raw) == [i \in 1..Len(raw) |-> SlugChar(raw[i])]

DigitChars == <<"0", "1", "2", "3", "4", "5", "6", "7", "8", "9">>

RECURSIVE NumberToString(_)
\* '-' + lastCount: the decimal digits of a number
NumberToString(n) ==
  IF n < 10 THEN << DigitChars[n + 1] >>
  ELSE NumberToString(n \div 10) \o << DigitChars[(n % 10) + 1] >>

\* Uri.toString() of a file locator
UriToString(uri) ==
  CASE uri.path = "/a.md" -> "file:///a.md"
    [] uri.path = "/b.md" -> "file:///b.md"

UriStrings == { UriToString(u) : u \in Uris }

(***************************************************************************)
(* The heading hook and one pass of the markdown engine.                   *)
(***************************************************************************)
\* line 11: the heading_open rule of the engine when the module is loaded,
\* before the hook is ever installed
originalHeadingOpen == "original"

\* mutant of delegateOf: the rule to delegate to is taken from the engine
\* each time the hook is installed
delegateOf_capturedAtInstall(installed) == installed

\* lines 178-182: the renderer the hook hands the token to, `installed`
\* being the rule on the engine when line 69 installed the hook
delegateOf(installed) == originalHeadingOpen

\* line 176: the attrs of the heading token (none before) with the id
attrsWithId(slug) == << <<"id", slug>> >>

\* headingOpen, lines 163-182: the slug of the heading, the registry after
\* it, the attrs of the token and the renderer delegated to
headingOpen(sc, raw) ==
  LET slug == slugify(raw)
      suffixed == slug \o <<"-">> \o NumberToString(sc[slug] + 1)
  IN IF Truthy(sc, slug)
     THEN [slugCount |-> MapSet(sc, slug, sc[slug] + 1),
           id |-> suffixed, text |-> raw,
           attrs |-> attrsWithId(suffixed), delegate |-> delegateOf(heading_open)]
     ELSE [slugCount |-> MapSet(sc, slug, 0), id |-> slug, text |-> raw,
           attrs |-> attrsWithId(slug), delegate |-> delegateOf(heading_open)]

RECURSIVE RenderTokens(_, _, _, _)
\* the engine renders the heading tokens in document order, calling the
\* installed heading_open rule once per heading
RenderTokens(content, i, sc, out) ==
  IF i > Len(content) THEN [headings |-> out, slugCount |-> sc]
  ELSE LET h == headingOpen(sc, content[i])
       IN RenderTokens(content, i + 1, h.slugCount,
                       Append(out, [id |-> h.id, text |-> h.text,
                                    attrs |-> h.attrs, delegate |-> h.delegate]))

\* engine.render(content) with headingOpen installed as heading_open: the
\* headings of the html, each with its id and text, and the registry after
engineRender(content, sc) == RenderTokens(content, 1, sc, << >>)

\* the document assigned to webview.html: the data-uri of the body and the
\* rendered headings
renderHtmlContent(resource, rendered) ==
  [uri |-> UriToString(resource), headings |-> rendered.headings]

\* mutant of SlugCountClear: line 70 is missing, the registry of the last
\* pass is kept
SlugCountClear_kept(sc) == sc

\* this._slugCount.clear()
SlugCountClear(sc) == EmptyMap

(***************************************************************************)
(* The terminal collaborator and the command codec (terminal.ts).          *)
(***************************************************************************)
\* encoded command tokens an interaction may carry: one that decodes and one
\* that is not validly encoded
Tokens == {"bHM=", "@@"}

decodeFails(token) == token # "bHM="

\* the decoded command, as a sequence of characters
decodeTerminalCommand(token) == CASE token = "bHM=" -> <<"l", "s">>

\* vscode.Uri.parse of the uri query parameter, a fresh Uri object
UriParse(str) ==
  CASE str = "file:///a.md" -> [obj |-> 0, path |-> "/a.md"]
    [] str = "file:///b.md" -> [obj |-> 0, path |-> "/b.md"]

\* interaction events a webview posts: a command name and a text whose query
\* carries the parameters code and uri; NoText is the empty text
NoText == [code |-> "", uri |-> ""]

Texts == {NoText} \cup [code : Tokens, uri : UriStrings]

\* link events with every text, and events of another command with no text or
\* with a text a link event would dispatch
Events ==
  [command : {"link"}, text : Texts]
    \cup [command : {"scroll"},
          text : {NoText} \cup [code : {"bHM="}, uri : UriStrings]]

\* utils.parseUrl(text, true).query
parseUrlQuery(text) == [code |-> text.code, uri |-> text.uri]

(***************************************************************************)
(* The effect log of one handler.                                          *)
(***************************************************************************)
NoEffects ==
  [op |-> "new", uri |-> NoUri, result |-> "undefined",
   created |-> 0, revealed |-> 0, htmlSet |-> 0,
   read |-> "none", rendered |-> FALSE, startRegistry |-> EmptyMap,
   event |-> [command |-> "", text |-> NoText], calls |-> << >>, sent |-> << >>,
   shown |-> << >>, workspaceFolders |-> << >>]

Merge(r, s) == [k \in DOMAIN r |-> IF k \in DOMAIN s THEN s[k] ELSE r[k]]

(***************************************************************************)
(* updatePreview, lines 61-77, as a function of the session map and the    *)
(* panels it is called with: the panels, registry and engine rule after    *)
(* it, and what it did.                                                    *)
(***************************************************************************)
\* mutant of updateNoSession: lines 69-70 run before the lookup of line 64
updateNoSession_hookFirst(pnls) ==
  [result |-> "undefined", panels |-> pnls, slugCount |-> EmptyMap,
   heading_open |-> "headingOpen", read |-> "none", rendered |-> FALSE,
   htmlSet |-> 0, startRegistry |-> EmptyMap]

\* lines 65-67: no session, return undefined
updateNoSession(pnls) ==
  [result |-> "undefined", panels |-> pnls, slugCount |-> slugCount,
   heading_open |-> heading_open, read |-> "none", rendered |-> FALSE,
   htmlSet |-> 0, startRegistry |-> EmptyMap]

\* mutant of updateReadFailed: the read error is caught and the webview is
\* given empty content
updateReadFailed_emptyFallback(pnls, p, cleared) ==
  [result |-> "webview", panels |-> [pnls EXCEPT ![p].html = EmptyHtml],
   slugCount |-> cleared, heading_open |-> "headingOpen", read |-> "failed",
   rendered |-> FALSE, htmlSet |-> p, startRegistry |-> EmptyMap]

\* lines 69-72 when readFileContent throws: the hook is installed and the
\* registry cleared, the error leaves updatePreview before line 73
updateReadFailed(pnls, p, cleared) ==
  [result |-> "ReadError", panels |-> pnls, slugCount |-> cleared,
   heading_open |-> "headingOpen", read |-> "failed", rendered |-> FALSE,
   htmlSet |-> 0, startRegistry |-> EmptyMap]

\* mutant of updateRendered: the rendered document is assigned to the
\* webview of every live panel
updateRendered_everyPanel(pnls, p, resource, cleared, file) ==
  LET content == readFileContent(file)
      rendered == engineRender(content, cleared)
      html == renderHtmlContent(resource, rendered)
  IN [result |-> "webview",
      panels |-> [q \in 1..Len(pnls) |->
                    IF pnls[q].live THEN [pnls[q] EXCEPT !.html = html]
                    ELSE pnls[q]],
      slugCount |-> rendered.slugCount, heading_open |-> "headingOpen",
      read |-> "read", rendered |-> TRUE, htmlSet |-> p,
      startRegistry |-> cleared]

\* lines 69-76 when the file is read: one render pass, assigned to
\* webview.html
updateRendered(pnls, p, resource, cleared, file) ==
  LET content == readFileContent(file)
      rendered == engineRender(content, cleared)
      html == renderHtmlContent(resource, rendered)
  IN [result |-> "webview", panels |-> [pnls EXCEPT ![p].html = html],
      slugCount |-> rendered.slugCount, heading_open |-> "headingOpen",
      read |-> "read", rendered |-> TRUE, htmlSet |-> p,
      startRegistry |-> cleared]

\* `file` is what is on disk at the resource when line 72 reads it
updatePreview(vws, pnls, uri, file) ==
  LET resource == resourceFromUri(uri)
  IN IF ~MapHas(vws, resource) THEN updateNoSession(pnls)
     ELSE LET p == vws[resource]
              cleared == SlugCountClear(slugCount)
          IN IF readFails(file) THEN updateReadFailed(pnls, p, cleared)
             ELSE updateRendered(pnls, p, resource, cleared, file)

(***************************************************************************)
(* runInTerminal, lines 150-161, and handleEvent, lines 137-148.           *)
(***************************************************************************)
\* mutant of BracketedPaste: the two markers are swapped
BracketedPaste_swapped(command) == <<"ESC[201~">> \o command \o <<"ESC[200~">>

\* line 155: the command between the bracketed paste markers
BracketedPaste(command) == <<"ESC[200~">> \o command \o <<"ESC[201~">>

\* mutant of runInTerminal: the token is sent as it came when it does not
\* decode
runInTerminal_sendsUndecoded(terms, encodedCommand, uri) ==
  LET key == UriToString(uri)
      found == IF key \in terms THEN <<"findTerminal">> ELSE <<"createTerminal">>
      decoded == IF decodeFails(encodedCommand) THEN <<encodedCommand>>
                 ELSE decodeTerminalCommand(encodedCommand)
      command == IF config.bracketedPasteMode
                 THEN BracketedPaste(decoded) ELSE decoded
  IN [result |-> "undefined", terminals |-> terms \cup {key},
      calls |-> found \o <<"decode", "sendText", "show">>,
      sent |-> << [term |-> key, text |-> command, execute |-> TRUE] >>,
      shown |-> <<key>>]

\* mutant of runInTerminal: the terminal is shown before the text is sent
runInTerminal_showsFirst(terms, encodedCommand, uri) ==
  LET key == UriToString(uri)
      found == IF key \in terms THEN <<"findTerminal">> ELSE <<"createTerminal">>
      terms1 == terms \cup {key}
  IN IF decodeFails(encodedCommand)
     THEN [result |-> "DecodeError", terminals |-> terms1,
           calls |-> found \o <<"decode">>, sent |-> << >>, shown |-> << >>]
     ELSE LET decoded == decodeTerminalCommand(encodedCommand)
              command == IF config.bracketedPasteMode
                         THEN BracketedPaste(decoded) ELSE decoded
          IN [result |-> "undefined", terminals |-> terms1,
              calls |-> found \o <<"decode", "show", "sendText">>,
              sent |-> << [term |-> key, text |-> command, execute |-> TRUE] >>,
              shown |-> <<key>>]

runInTerminal(terms, encodedCommand, uri) ==
  LET key == UriToString(uri)
      found == IF key \in terms THEN <<"findTerminal">> ELSE <<"createTerminal">>
      terms1 == terms \cup {key}
  IN IF decodeFails(encodedCommand)
     THEN [result |-> "DecodeError", terminals |-> terms1,
           calls |-> found \o <<"decode">>, sent |-> << >>, shown |-> << >>]
     ELSE LET decoded == decodeTerminalCommand(encodedCommand)
              command == IF config.bracketedPasteMode
                         THEN BracketedPaste(decoded) ELSE decoded
          IN [result |-> "undefined", terminals |-> terms1,
              calls |-> found \o <<"decode", "sendText", "show">>,
              sent |-> << [term |-> key, text |-> command, execute |-> TRUE] >>,
              shown |-> <<key>>]

\* lines 145-147 and the end of the switch: nothing is done
eventIgnored(terms) ==
  [result |-> "undefined", terminals |-> terms, calls |-> << >>, sent |-> << >>,
   shown |-> << >>]

\* mutant of handleEvent: the switch on event.command is missing
handleEvent_anyCommand(terms, event) ==
  IF event.text # NoText
  THEN LET query == parseUrlQuery(event.text)
       IN runInTerminal(terms, query.code, UriParse(query.uri))
  ELSE eventIgnored(terms)

handleEvent(terms, event) ==
  IF event.command = "link"
  THEN IF event.text # NoText
       THEN LET query == parseUrlQuery(event.text)
            IN runInTerminal(terms, query.code, UriParse(query.uri))
       ELSE eventIgnored(terms)
  ELSE eventIgnored(terms)

\* Emitter.fire: the message is handed to every subscription of the
\* webview that posts it, one call of handleEvent after the other
RECURSIVE deliver(_, _, _)
deliver(n, terms, event) ==
  IF n = 0 THEN eventIgnored(terms)
  ELSE LET first == handleEvent(terms, event)
           rest == deliver(n - 1, first.terminals, event)
       IN [result |-> first.result, terminals |-> rest.terminals,
           calls |-> first.calls \o rest.calls, sent |-> first.sent \o rest.sent,
           shown |-> first.shown \o rest.shown]

(***************************************************************************)
(* openPreview, lines 25-59: the creation of the panel.                    *)
(***************************************************************************)
\* lines 34-37: the variable localResourceRoots
localResourceRoots(folders) ==
  IF folders # << >> THEN {ExtensionUri, folders[1]} ELSE {ExtensionUri}

\* lines 39-46: the panel createWebviewPanel returns; its option
\* localResourceRoots is the literal [this._extensionUri], the variable
\* `roots` of lines 34-37 is not passed
createWebviewPanel(resource, roots) ==
  [live |-> TRUE, key |-> resource, html |-> EmptyHtml,
   localResourceRoots |-> {ExtensionUri}, subscriptions |-> 0]

\* mutant of subscribe: line 50 stands after the if of line 31
subscribe_everyOpen(exists, n) == n + 1

\* lines 31 and 50: onDidReceiveMessage(this.handleEvent) runs only in the
\* branch that creates the panel; n subscriptions before, the result after
subscribe(exists, n) == IF exists THEN n ELSE n + 1

(***************************************************************************)
(* sanitizeHtmlLocalPaths, lines 87-93.  The html is a sequence of tokens; *)
(* the value of a src attribute is a sequence of characters.               *)
(***************************************************************************)
Tok(t) == [t |-> t, v |-> << >>]

Val(chars) == [t |-> "value", v |-> chars]

\* <img src="..."> as the engine renders an image
ImgTag(src) ==
  << Tok("<img"), Tok(" "), Tok("src=\""), Val(src), Tok("\""), Tok(">") >>

\* src values: a relative path, an absolute URL, a data URI
ImageSources ==
  { <<".", "/", "a">>,
    <<"h", "t", "t", "p", "s", ":", "/", "/", "x">>,
    <<"d", "a", "t", "a", ":", "x">> }

\* what stands between two image tags: nothing (same line) or a line break
Separators == { << >>, << Tok("\n") >> }

RECURSIVE HtmlOf(_)
\* the html of a sequence of images, each with the separator after it
HtmlOf(images) ==
  IF images = << >> THEN << >>
  ELSE ImgTag(Head(images).src)
       \o (IF Len(images) > 1 THEN Head(images).sep ELSE << >>)
       \o HtmlOf(Tail(images))

RenderedHtmls ==
  { HtmlOf(images) :
      images \in UNION { [1..n -> [src : ImageSources, sep : Separators]] :
                           n \in 1..MaxImages } }

\* vscode.Uri.file(utils.resourceDir(uri)).path: both documents lie in /
resourceDirPath(uri) == << "/" >>

\* webview.asWebviewUri(vscode.Uri.file(path)), as a string
asWebviewUri(path) == << "webview:" >> \o path

\* line 90
newSrc(src, uriBasePath) ==
  IF src[1] = "." THEN asWebviewUri(uriBasePath \o <<"/">> \o src) ELSE src

\* the ends of the matches of /<img(.+)src="([^"]+)"/ that start at token i:
\* the positions j of a src=" with a value and a closing quote after it,
\* at least one character and no line break between <img and it
MatchEnds(toks, i) ==
  { j \in (i + 2)..(Len(toks) - 2) :
      /\ toks[j].t = "src=\"" /\ toks[j + 1].t = "value" /\ toks[j + 2].t = "\""
      /\ \A k \in (i + 1)..(j - 1) : toks[k].t # "\n" }

SetMin(S) == CHOOSE x \in S : \A y \in S : x <= y

SetMax(S) == CHOOSE x \in S : \A y \in S : x >= y

RECURSIVE replaceImgSrc(_, _, _)
\* htmlContent.replace(regex with flag g, callback) from token `from` on: the
\* leftmost match, (.+) greedy so the match ends at the last src of the
\* line, its src replaced, then on from the end of the match
replaceImgSrc(toks, from, uriBasePath) ==
  LET starts == { i \in from..Len(toks) :
                    toks[i].t = "<img" /\ MatchEnds(toks, i) # {} }
  IN IF starts = {} THEN toks
     ELSE LET i == SetMin(starts)
              j == SetMax(MatchEnds(toks, i))
          IN replaceImgSrc(
               [toks EXCEPT ![j + 1] = Val(newSrc(toks[j + 1].v, uriBasePath))],
               j + 3, uriBasePath)

sanitizeHtmlLocalPaths(uri, htmlContent) ==
  replaceImgSrc(htmlContent, 1, resourceDirPath(uri))

\* no call of sanitizeHtmlLocalPaths
NoImg == [uri |-> NoUri, html |-> << >>, out |-> << >>, done |-> FALSE]

(***************************************************************************)
(* Init: the state after the constructor, lines 14-21.                     *)
(***************************************************************************)
Init ==
  /\ views = EmptyMap
  /\ panels = << >>
  /\ slugCount = EmptyMap
  /\ config \in Configs
  /\ heading_open = "original"
  /\ terminals = {}
  /\ last = NoEffects
  /\ img = NoImg

(***************************************************************************)
(* Commands and host callbacks.                                            *)
(***************************************************************************)
\* openPreview, lines 25-59
OpenPreview(uri, file, folders) ==
  LET resource == resourceFromUri(uri)
      exists == MapHas(views, resource)
      newId == Len(panels) + 1
      created == createWebviewPanel(resource, localResourceRoots(folders))
      pnls1 == IF exists
               THEN [panels EXCEPT ![views[resource]].subscriptions = subscribe(TRUE, @)]
               ELSE Append(panels, [created EXCEPT !.subscriptions = subscribe(FALSE, @)])
      vws1 == IF exists THEN views ELSE MapSet(views, resource, newId)
      upd == updatePreview(vws1, pnls1, uri, file)
      failed == upd.result = "ReadError"
  IN /\ exists \/ Len(panels) < MaxPanels
     \* lines 34-37 read the workspace folders only when a panel is created
     /\ exists => folders = << >>
     /\ views' = vws1
     /\ panels' = upd.panels
     /\ slugCount' = upd.slugCount
     /\ heading_open' = upd.heading_open
     /\ last' = Merge(NoEffects,
          [op |-> "open", uri |-> uri,
           result |-> IF failed THEN "ReadError"
                      ELSE IF exists THEN "undefined" ELSE "webview",
           created |-> IF exists THEN 0 ELSE newId,
           revealed |-> IF failed THEN 0 ELSE vws1[resource],
           htmlSet |-> upd.htmlSet, read |-> upd.read, rendered |-> upd.rendered,
           startRegistry |-> upd.startRegistry,
           workspaceFolders |-> IF exists THEN << >> ELSE folders])
     /\ UNCHANGED <<config, terminals, img>>

\* the command updatePreview, lines 61-77
UpdatePreview(uri, file) ==
  LET upd == updatePreview(views, panels, uri, file)
  IN /\ panels' = upd.panels
     /\ slugCount' = upd.slugCount
     /\ heading_open' = upd.heading_open
     /\ last' = Merge(NoEffects,
          [op |-> "update", uri |-> uri, result |-> upd.result,
           htmlSet |-> upd.htmlSet, read |-> upd.read, rendered |-> upd.rendered,
           startRegistry |-> upd.startRegistry])
     /\ UNCHANGED <<views, config, terminals, img>>

\* reloadConfig, line 79: the configuration the host holds now
ReloadConfig(cfg) ==
  /\ config' = cfg
  /\ last' = Merge(NoEffects, [op |-> "reloadConfig"])
  /\ UNCHANGED <<views, panels, slugCount, heading_open, terminals, img>>

\* a live webview posts a message: handleEvent, subscribed at line 50
HandleEvent(p, event) ==
  LET r == deliver(panels[p].subscriptions, terminals, event)
  IN /\ panels[p].live
     /\ terminals' = r.terminals
     /\ last' = Merge(NoEffects,
          [op |-> "event", result |-> r.result, event |-> event,
           calls |-> r.calls, sent |-> r.sent, shown |-> r.shown])
     /\ UNCHANGED <<views, panels, slugCount, config, heading_open, img>>

\* the user closes a panel: the onDidDispose callback of line 47
DisposePanel(p) ==
  /\ panels[p].live
  /\ panels' = [panels EXCEPT ![p] = DisposedPanel]
  /\ views' = MapDelete(views, panels[p].key)
  /\ last' = Merge(NoEffects, [op |-> "dispose", uri |-> panels[p].key])
  /\ UNCHANGED <<slugCount, config, heading_open, terminals, img>>

Next ==
  \/ \E uri \in Uris, file \in FileStates, folders \in WorkspaceFolders :
       OpenPreview(uri, file, folders)
  \/ \E uri \in Uris, file \in FileStates : UpdatePreview(uri, file)
  \/ \E cfg \in Configs : ReloadConfig(cfg)
  \/ \E p \in 1..Len(panels), event \in Events : HandleEvent(p, event)
  \/ \E p \in 1..Len(panels) : DisposePanel(p)

Spec == Init /\ [][Next]_vars

(***************************************************************************)
(* SpecImg: sanitizeHtmlLocalPaths applied to the html of a document with  *)
(* images.                                                                 *)
(***************************************************************************)
InitImg ==
  /\ views = EmptyMap
  /\ panels = << >>
  /\ slugCount = EmptyMap
  /\ config \in Configs
  /\ heading_open = "original"
  /\ terminals = {}
  /\ last = NoEffects
  /\ img \in [uri : Uris, html : RenderedHtmls, out : {<< >>}, done : {FALSE}]

\* renderHtmlContent, line 100, calls sanitizeHtmlLocalPaths
Sanitize ==
  /\ ~img.done
  /\ img' = [img EXCEPT !.out = sanitizeHtmlLocalPaths(img.uri, img.html),
                        !.done = TRUE]
  /\ UNCHANGED <<views, panels, slugCount, config, heading_open, terminals, last>>

NextImg == Sanitize

SpecImg == InitImg /\ [][NextImg]_vars

(***************************************************************************)
(* Properties.                                                             *)
(***************************************************************************)
\* the panels that are created and not disposed
LivePanels == { p \in 1..Len(panels) : panels[p].live }

\* the headings of the html of panel p: the ids one render pass emitted, in
\* document order, each with the text of its heading
Headings(p) == panels[p].html.headings

BaseSlug(p, i) == slugify(Headings(p)[i].text)

\* the number of headings of panel p up to the i-th with the i-th's base slug
Occurrence(p, i) == Cardinality({ j \in 1..i : BaseSlug(p, j) = BaseSlug(p, i) })

\* C1: within one render pass every emitted heading id is unique: no two
\* headings of the html of a panel carry the same id.
C1_IdsUniqueInPass ==
  \A p \in 1..Len(panels) : \A i, j \in 1..Len(Headings(p)) :
    i # j => Headings(p)[i].id # Headings(p)[j].id

\* C2: the headings of one pass that share a base slug get pairwise distinct
\* ids, and the first of them gets the base slug unmodified.
C2_SameBaseDistinctFirstUnmodified ==
  \A p \in 1..Len(panels) : \A i \in 1..Len(Headings(p)) :
    /\ Occurrence(p, i) = 1 => Headings(p)[i].id = BaseSlug(p, i)
    /\ \A j \in 1..(i - 1) :
         BaseSlug(p, j) = BaseSlug(p, i) => Headings(p)[j].id # Headings(p)[i].id

\* C3: the k-th occurrence of a base slug b in one pass is emitted as b for
\* k = 1 and as b-(k-1) for k >= 2.
C3_KthOccurrenceSuffixed ==
  \A p \in 1..Len(panels) : \A i \in 1..Len(Headings(p)) :
    Headings(p)[i].id =
      IF Occurrence(p, i) = 1 THEN BaseSlug(p, i)
      ELSE BaseSlug(p, i) \o <<"-">> \o NumberToString(Occurrence(p, i) - 1)

\* the texts of the headings of panel p, the content its pass rendered
RenderedContent(p) == [i \in 1..Len(Headings(p)) |-> Headings(p)[i].text]

\* C4: the slug registry is empty when the first heading of a render pass is
\* processed, and the headings every panel shows are the ones a pass over
\* its content alone emits, whatever was rendered before.
C4_RegistryEmptyAtPassStart ==
  /\ last.rendered => last.startRegistry = EmptyMap
  /\ \A p \in 1..Len(panels) :
       Headings(p) = engineRender(RenderedContent(p), EmptyMap).headings

\* a pass has just rendered a document with two headings while a panel of
\* another document shows the headings of an earlier pass
C4_Witness ==
  /\ last.rendered
  /\ Len(Headings(last.htmlSet)) = 2
  /\ \E q \in LivePanels :
       /\ DocOf(panels[q].key) # DocOf(panels[last.htmlSet].key)
       /\ Headings(q) # << >>

\* C5: every Document Identity has at most one live panel and at most one
\* entry in the session map.
C5_OneSessionPerDocument ==
  \A path \in Paths :
    /\ Cardinality({ p \in LivePanels : DocOf(panels[p].key) = path }) <= 1
    /\ Cardinality({ k \in DOMAIN views : DocOf(k) = path }) <= 1

\* C6: two opens in a row of the same Document Identity, both reading the
\* file, create one panel between them, leave one entry in the session map
\* and each reveal the panel.
C6_OpenTwiceOneSurface ==
  [][(/\ last.op = "open" /\ last'.op = "open"
      /\ DocOf(last.uri) = DocOf(last'.uri)
      /\ last.read = "read" /\ last'.read = "read")
     => /\ last'.created = 0
        /\ Cardinality({ k \in DOMAIN views' : DocOf(k) = DocOf(last'.uri) }) = 1
        /\ last.revealed # 0 /\ last'.revealed = last.revealed]_vars

\* C7: update of a Document Identity that has no open session returns
\* undefined, reads no file, runs no render pass, assigns no html and leaves
\* the whole state as it was.
C7_UpdateWithoutSessionIsNoOp ==
  [][(/\ last'.op = "update"
      /\ \A k \in DOMAIN views : DocOf(k) # DocOf(last'.uri))
     => /\ last'.result = "undefined"
        /\ last'.read = "none" /\ ~last'.rendered /\ last'.htmlSet = 0
        /\ UNCHANGED <<views, panels, slugCount, heading_open, config, terminals>>]_vars

\* an update found no session for its document while another document has one
C7_Witness ==
  /\ last.op = "update" /\ last.result = "undefined"
  /\ \A k \in DOMAIN views : DocOf(k) # DocOf(last.uri)
  /\ views # EmptyMap

\* C8: when the read of line 72 fails in an update of an open session, the
\* ReadError reaches the caller, no render pass runs and every panel, the one
\* of the session included, shows what it showed.
C8_ReadErrorKeepsContent ==
  [][(last'.op = "update" /\ last'.read = "failed")
     => /\ last'.result = "ReadError"
        /\ ~last'.rendered /\ last'.htmlSet = 0
        /\ panels' = panels /\ views' = views]_vars

\* an update failed to read the file of a session whose panel shows a
\* rendered document
C8_Witness ==
  /\ last.op = "update" /\ last.read = "failed"
  /\ \E p \in LivePanels : panels[p].key = last.uri /\ Headings(p) # << >>

\* C9: a link event whose token does not decode is rejected with the
\* DecodeError: nothing is sent to a terminal and no terminal is shown.
C9_DecodeErrorDispatchesNothing ==
  (/\ last.op = "event" /\ last.event.command = "link"
   /\ last.event.text # NoText /\ decodeFails(last.event.text.code))
  => /\ last.result = "DecodeError"
     /\ last.sent = << >>
     /\ \A i \in 1..Len(last.calls) : last.calls[i] \notin {"sendText", "show"}

\* a link event carried a token that does not decode
C9_Witness ==
  /\ last.op = "event" /\ last.event.command = "link"
  /\ last.event.text # NoText /\ decodeFails(last.event.text.code)

\* C10: an event whose command is not link raises nothing, calls nothing of
\* the terminal collaborator and leaves the terminals, the session map and
\* the panels as they were.
C10_OtherCommandIgnored ==
  [][(last'.op = "event" /\ last'.event.command # "link")
     => /\ last'.result = "undefined"
        /\ last'.calls = << >> /\ last'.sent = << >>
        /\ UNCHANGED <<terminals, views, panels>>]_vars

\* an event that is not a link carried a text a link would have dispatched
C10_Witness ==
  /\ last.op = "event" /\ last.event.command = "scroll"
  /\ last.event.text # NoText /\ ~decodeFails(last.event.text.code)

\* the last handler was a link event whose token decodes
LinkDispatched ==
  /\ last.op = "event" /\ last.event.command = "link"
  /\ last.event.text # NoText /\ ~decodeFails(last.event.text.code)

\* C11: a link event with a decodable token finds or creates the terminal
\* keyed by the string of the locator its uri parameter names and decodes,
\* then sends one text with execute = true to that terminal, then shows that
\* terminal.
C11_DispatchToPayloadTerminalInOrder ==
  LinkDispatched =>
    LET key == last.event.text.uri
    IN /\ last.calls \in { <<"findTerminal", "decode", "sendText", "show">>,
                           <<"createTerminal", "decode", "sendText", "show">> }
       /\ Len(last.sent) = 1
       /\ last.sent[1].term = key /\ last.sent[1].execute
       /\ last.shown = <<key>>
       /\ key \in terminals

\* a link was dispatched to the terminal of a document no live panel shows,
\* so not the document of the webview that posted the event
C11_Witness ==
  /\ LinkDispatched
  /\ \A p \in LivePanels :
       UriToString(panels[p].key) # last.event.text.uri

\* C12: the text sent for a link event is the decoded command when
\* bracketedPasteMode is not set in the configuration the manager holds, and
\* ESC[200~ + decoded command + ESC[201~ when it is set.
C12_BracketedPasteFollowsConfig ==
  LinkDispatched =>
    LET decoded == decodeTerminalCommand(last.event.text.code)
    IN /\ Len(last.sent) = 1
       /\ last.sent[1].text =
            IF config.bracketedPasteMode
            THEN <<"ESC[200~">> \o decoded \o <<"ESC[201~">>
            ELSE decoded

\* a link was dispatched while the configuration held has bracketedPasteMode set
C12_Witness ==
  /\ LinkDispatched
  /\ config.bracketedPasteMode
  /\ Len(last.sent[1].text) = 4

\* C13: a panel created by open may load local resources from the extension
\* and, when the workspace has a folder, from the first workspace folder, and
\* from nowhere else.
C13_ResourceRootsOfCreatedPanel ==
  last.created # 0 =>
    panels[last.created].localResourceRoots =
      IF last.workspaceFolders = << >> THEN {ExtensionUri}
      ELSE {ExtensionUri, last.workspaceFolders[1]}

\* the session map vws holds an entry for the Document Identity path
HasSession(vws, path) == \E k \in DOMAIN vws : DocOf(k) = path

\* C14: the session of a Document Identity begins with an open that creates
\* a new panel, is removed by nothing but a disposal, and is gone once the
\* panel of that identity is disposed, so that an update after it finds no
\* session and the next open creates a panel again.
C14_SessionLifecycle ==
  [][\A path \in Paths :
       /\ (~HasSession(views, path) /\ HasSession(views', path))
            => /\ last'.op = "open" /\ DocOf(last'.uri) = path
               /\ last'.created = Len(panels) + 1
       /\ (HasSession(views, path) /\ ~HasSession(views', path))
            => last'.op = "dispose"
       /\ (last'.op = "dispose" /\ DocOf(last'.uri) = path)
            => ~HasSession(views', path)]_vars

\* the html in which every image whose src begins with "." has the webview
\* form of the path under the directory of the document, and every other
\* token is as it was
AllRelativeRewritten(uri, html) ==
  [i \in 1..Len(html) |->
     IF html[i].t = "value" /\ html[i].v[1] = "."
     THEN Val(asWebviewUri(resourceDirPath(uri) \o <<"/">> \o html[i].v))
     ELSE html[i]]

\* C15: sanitizeHtmlLocalPaths rewrites the src of every image that begins
\* with "." and leaves every absolute URL and data URI unchanged, for any
\* number of image tags, several on one line included.
C15_EveryRelativeImageRewritten ==
  img.done => img.out = AllRelativeRewritten(img.uri, img.html)

\* C16: an update, whether it renders or fails, leaves the session map and
\* every panel but the one of its own locator as they were.
C16_UpdateTouchesOwnSessionOnly ==
  [][last'.op = "update"
     => /\ views' = views
        /\ Len(panels') = Len(panels)
        /\ \A q \in 1..Len(panels) :
             panels[q].key # last'.uri => panels'[q] = panels[q]]_vars

\* an update of an open session failed to read its file while the panel of
\* another session shows a rendered document
C16_Witness ==
  /\ last.op = "update" /\ last.read = "failed"
  /\ \E p \in LivePanels : panels[p].key = last.uri
  /\ \E q \in LivePanels : panels[q].key # last.uri /\ Headings(q) # << >>

\* C17: after any number of installations of the hook, every heading a pass
\* rendered carries exactly one id attribute and was handed once to the
\* renderer that stood on the engine before the hook was first installed,
\* never to the hook itself.
C17_HookDelegatesToOriginal ==
  \A p \in 1..Len(panels) : \A i \in 1..Len(Headings(p)) :
    LET h == Headings(p)[i]
    IN /\ Cardinality({ k \in 1..Len(h.attrs) : h.attrs[k][1] = "id" }) = 1
       /\ h.attrs[1][2] = h.id
       /\ h.delegate = "original"

\* an update rendered headings: the hook had been installed before by the
\* open of the session and was installed again by this update
C17_Witness ==
  /\ last.op = "update" /\ last.rendered
  /\ Headings(last.htmlSet) # << >>

\* C18: every live surface carries exactly one subscription of handleEvent,
\* whatever opens and updates came after the open that created it, and a
\* link event with a decodable token that a surface posts ends in exactly
\* one sendText.
C18_SubscribedOncePerSurface ==
  /\ \A p \in LivePanels : panels[p].subscriptions = 1
  /\ LinkDispatched =>
       Cardinality({ k \in 1..Len(last.calls) : last.calls[k] = "sendText" }) = 1

\* an open has just found the session of its Uri in the map, and the surface
\* of that session still carries one subscription
C18_Witness ==
  /\ last.op = "open" /\ last.created = 0
  /\ \E p \in LivePanels : panels[p].key = last.uri /\ panels[p].subscriptions = 1

\* C19: an open that creates a panel and fails to read the file returns the
\* ReadError, reveals nothing and leaves the session registered with its
\* panel; while a session of a Document Identity has a panel that never
\* rendered, an open or update of that identity creates no panel and, when
\* it reads the file, renders into the panel of that session.
C19_FailedFirstRenderKeepsSession ==
  [][/\ (last'.op = "open" /\ last'.created # 0 /\ last'.read = "failed")
          => /\ last'.result = "ReadError" /\ last'.revealed = 0
             /\ MapHas(views', resourceFromUri(last'.uri))
             /\ views'[resourceFromUri(last'.uri)] = last'.created
             /\ panels'[last'.created].live
     /\ \A k \in DOMAIN views :
          (/\ panels[views[k]].html = EmptyHtml
           /\ last'.op \in {"open", "update"}
           /\ DocOf(last'.uri) = DocOf(k))
            => /\ Len(panels') = Len(panels)
               /\ last'.created = 0
               /\ last'.read = "read" => last'.htmlSet = views[k]]_vars

\* C20: a link event whose token does not decode makes no call on the
\* terminal collaborator: no terminal is looked up or created, and the set
\* of terminals is as it was before the event.
C20_DecodeErrorTouchesNoTerminal ==
  [][(/\ last'.op = "event" /\ last'.event.command = "link"
      /\ last'.event.text # NoText /\ decodeFails(last'.event.text.code))
     => /\ terminals' = terminals
        /\ \A k \in 1..Len(last'.calls) :
             last'.calls[k] \notin {"findTerminal", "createTerminal"}]_vars

====
